---- MODULE Spec2Model ----
(***************************************************************************)
(* A model of the core execution pipeline of the SNIPER trading bot:       *)
(*   - the index slot manager          (bot/src/nonce_manager.rs)          *)
(*   - the execution engine            (bot/src/buy_engine.rs)             *)
(*   - the RPC broadcaster             (bot/src/rpc_manager.rs)            *)
(* Each subsystem has its own next-state relation and specification; all   *)
(* specifications share the variables declared below.                      *)
(***************************************************************************)
EXTENDS Integers, Sequences, FiniteSets, TLC

VARIABLES
    \* ---- IndexSlotManager (nonce_manager.rs) ----
    free,        \* inner.free : VecDeque<usize>, front = Head
    in_use,      \* inner.in_use : HashSet<usize>
    permits,     \* sem.available_permits()
    pending,     \* releases spawned by IndexLease::drop and not yet run: idx -> count
    \* ---- client tasks of the slot manager ----
    tpc,         \* position of each task
    tidx,        \* index the task popped / holds
    tlegacy,     \* the task called acquire_nonce_legacy (the lease is forgotten)
    trel,        \* explicit releases the task has issued for its current index
    trounds,     \* acquisitions the task has started
    \* ---- AppState (types.rs) and the engine (buy_engine.rs) ----
    st,          \* AppState, read and written under its mutex
    chan,        \* candidate channel contents
    chanClosed,  \* all senders dropped
    sent,        \* candidates sent so far
    epc,         \* position of BuyEngine::run / try_buy
    ecand,       \* candidate being processed
    acquired,    \* try_buy: acquired_indices
    ntxs,        \* try_buy: txs.len()
    buyres,      \* result of try_buy
    permits0,    \* available permits when try_buy was entered
    taken,       \* every index try_buy acquired in the current attempt
    spc,         \* position of each sell call
    sread,       \* sell: (mode, active_token, holdings_percent) read under the lock
    snew,        \* sell: new_holdings
    sres,        \* sell: last returned result
    \* ---- RpcManager (rpc_manager.rs) ----
    endpoints,   \* number of configured endpoints
    bmode,       \* broadcast_mode
    rpc,         \* position of send_on_many_rpc
    ntx,         \* number of transactions handed to send_on_many_rpc
    sub,         \* spawned sub-tasks of the JoinSet
    sendres,     \* value returned by send_on_many_rpc
    metrics,     \* metrics : endpoint -> EndpointMetrics counters
    caller,      \* who called send_on_many_rpc: try_buy or sell
    \* ---- CandidateBuffer (candidate_buffer.rs) ----
    map,         \* map : mint -> (candidate, seen_at), a function on the stored mints
    ttl,         \* ttl, in clock ticks
    max_size,    \* max_size
    now,         \* the monotonic clock Instant::now() reads
    bufres,      \* the last buffer operation and the value it returned
    popped,      \* mints pop_best returned that were not pushed again since
    \* ---- the engine's gate: security validator and metrics registry ----
    limiter,     \* validator(): attempts recorded per mint in the current window
    counters,    \* metrics(): the counters run increments
    \* ---- TransactionBuilder (tx_builder.rs) ----
    bld,         \* the build call in progress: position, kind, nonce guard, result
    \* ---- the engine's configuration and the batch of a buy attempt ----
    nonce_count, \* Config.nonce_count
    tx_builder,  \* BuyEngine.tx_builder is Some
    txs,         \* try_buy: txs, the transactions built so far
    uniq         \* keys the placeholder buy transactions drew from Pubkey::new_unique()

slotVars   == <<free, in_use, permits, pending>>
taskVars   == <<tpc, tidx, tlegacy, trel, trounds>>
engineVars == <<st, chan, chanClosed, sent, epc, ecand, acquired, ntxs, buyres,
                permits0, taken>>
sellVars   == <<spc, sread, snew, sres>>
rpcVars    == <<endpoints, bmode, rpc, ntx, sub, sendres, metrics, caller>>
bufVars    == <<map, ttl, max_size, now, bufres, popped>>
gateVars   == <<limiter, counters>>
buildVars  == <<bld>>
batchVars  == <<nonce_count, tx_builder, txs, uniq>>
vars       == <<slotVars, taskVars, engineVars, sellVars, rpcVars, bufVars,
                gateVars, buildVars, batchVars>>

----------------------------------------------------------------------------
\* Bounds of the model.

\* capacity handed to IndexSlotManager::new
Capacity == 2
\* number of concurrent client tasks of the slot manager
NumTasks == 2
\* acquisitions each client task starts
MaxRounds == 2
\* explicit releases a task issues for one acquired index
MaxManualRel == 2

Indices == 0 .. (Capacity - 1)
Tasks   == 1 .. NumTasks
NoIdx   == Capacity

----------------------------------------------------------------------------
\* IndexSlotManager

RECURSIVE Iota(_)
\* (0..capacity).collect::<VecDeque<_>>()
Iota(n) == IF n = 0 THEN <<>> ELSE Append(Iota(n - 1), n - 1)

\* IndexSlotManager::new(capacity)
InitSlots ==
    /\ free = Iota(Capacity)
    /\ in_use = {}
    /\ permits = Capacity
    /\ pending = [i \in Indices |-> 0]

\* NonceManagerInner::return_index: an allocated index goes back to the free
\* queue, any other index is ignored.
ReturnIndex(fr, iu, idx) ==
    IF idx \in iu
    THEN [free |-> Append(fr, idx), in_use |-> iu \ {idx}]
    ELSE [free |-> fr, in_use |-> iu]

\* IndexSlotManager::release_nonce(idx): return_index, then add_permits(1)
ReleaseNonceEffect(idx) ==
    LET r == ReturnIndex(free, in_use, idx) IN
    /\ free' = r.free
    /\ in_use' = r.in_use
    /\ permits' = permits + 1

\* SlotManager::release_index(idx): push_back, then add_permits(1)
ReleaseIndexEffect(idx) ==
    /\ free' = Append(free, idx)
    /\ permits' = permits + 1
    /\ UNCHANGED in_use

InitTasks ==
    /\ tpc = [t \in Tasks |-> "idle"]
    /\ tidx = [t \in Tasks |-> NoIdx]
    /\ tlegacy = [t \in Tasks |-> FALSE]
    /\ trel = [t \in Tasks |-> 0]
    /\ trounds = [t \in Tasks |-> 0]

\* acquire_nonce, first await: sem.acquire() takes one permit, suspending
\* while none is available.
AcquireNoncePermit(t, legacy) ==
    /\ tpc[t] = "idle"
    /\ trounds[t] < MaxRounds
    /\ permits > 0
    /\ permits' = permits - 1
    /\ tpc' = [tpc EXCEPT ![t] = "an_permit"]
    /\ tlegacy' = [tlegacy EXCEPT ![t] = legacy]
    /\ trounds' = [trounds EXCEPT ![t] = @ + 1]
    /\ trel' = [trel EXCEPT ![t] = 0]
    /\ UNCHANGED <<free, in_use, pending, tidx>>
    /\ UNCHANGED <<engineVars, sellVars, rpcVars, bufVars, gateVars, buildVars, batchVars>>

\* acquire_nonce, free.lock(): pop_front, or Err (the permit is dropped and
\* so returned) when the queue is empty.
AcquireNoncePop(t) ==
    /\ tpc[t] = "an_permit"
    /\ IF free = <<>>
       THEN /\ permits' = permits + 1
            /\ tpc' = [tpc EXCEPT ![t] = "idle"]
            /\ UNCHANGED <<free, tidx>>
       ELSE /\ free' = Tail(free)
            /\ tidx' = [tidx EXCEPT ![t] = Head(free)]
            /\ tpc' = [tpc EXCEPT ![t] = "an_popped"]
            /\ UNCHANGED permits
    /\ UNCHANGED <<in_use, pending, tlegacy, trel, trounds>>
    /\ UNCHANGED <<engineVars, sellVars, rpcVars, bufVars, gateVars, buildVars, batchVars>>

\* acquire_nonce, in_use.lock(): insert the index and return the lease;
\* acquire_nonce_legacy forgets the lease at once and keeps (pubkey, index).
AcquireNonceMark(t) ==
    /\ tpc[t] = "an_popped"
    /\ in_use' = in_use \cup {tidx[t]}
    /\ tpc' = [tpc EXCEPT ![t] = IF tlegacy[t] THEN "raw" ELSE "nonce_lease"]
    /\ UNCHANGED <<free, permits, pending, tidx, tlegacy, trel, trounds>>
    /\ UNCHANGED <<engineVars, sellVars, rpcVars, bufVars, gateVars, buildVars, batchVars>>

\* An explicit release_nonce(idx) by the holder of idx.
ReleaseNonce(t) ==
    /\ tpc[t] \in {"raw", "nonce_lease"}
    /\ trel[t] < MaxManualRel
    /\ ReleaseNonceEffect(tidx[t])
    /\ trel' = [trel EXCEPT ![t] = @ + 1]
    /\ UNCHANGED <<pending, tpc, tidx, tlegacy, trounds>>
    /\ UNCHANGED <<engineVars, sellVars, rpcVars, bufVars, gateVars, buildVars, batchVars>>

\* The holder of a forgotten lease is done with its index once it has
\* released it.
ForgetRaw(t) ==
    /\ tpc[t] = "raw"
    /\ trel[t] > 0
    /\ tpc' = [tpc EXCEPT ![t] = "idle"]
    /\ tidx' = [tidx EXCEPT ![t] = NoIdx]
    /\ UNCHANGED <<slotVars, tlegacy, trel, trounds>>
    /\ UNCHANGED <<engineVars, sellVars, rpcVars, bufVars, gateVars, buildVars, batchVars>>

\* Drop of the lease acquire_nonce returned: the index is returned and the
\* permit the lease owns goes back to the semaphore.
DropNonceLease(t) ==
    /\ tpc[t] = "nonce_lease"
    /\ LET r == ReturnIndex(free, in_use, tidx[t]) IN
         /\ free' = r.free
         /\ in_use' = r.in_use
    /\ permits' = permits + 1
    /\ tpc' = [tpc EXCEPT ![t] = "idle"]
    /\ tidx' = [tidx EXCEPT ![t] = NoIdx]
    /\ UNCHANGED <<pending, tlegacy, trel, trounds>>
    /\ UNCHANGED <<engineVars, sellVars, rpcVars, bufVars, gateVars, buildVars, batchVars>>

\* acquire_index, first await: sem.acquire() followed by drop(permit): waits
\* for a permit and gives it straight back.
AcquireIndexPermit(t) ==
    /\ tpc[t] = "idle"
    /\ trounds[t] < MaxRounds
    /\ permits > 0
    /\ tpc' = [tpc EXCEPT ![t] = "ai_permit"]
    /\ trounds' = [trounds EXCEPT ![t] = @ + 1]
    /\ trel' = [trel EXCEPT ![t] = 0]
    /\ UNCHANGED <<slotVars, tidx, tlegacy>>
    /\ UNCHANGED <<engineVars, sellVars, rpcVars, bufVars, gateVars, buildVars, batchVars>>

\* acquire_index, free.lock(): pop_front into an IndexLease, or Err.
AcquireIndexPop(t) ==
    /\ tpc[t] = "ai_permit"
    /\ IF free = <<>>
       THEN /\ tpc' = [tpc EXCEPT ![t] = "idle"]
            /\ UNCHANGED <<free, tidx>>
       ELSE /\ free' = Tail(free)
            /\ tidx' = [tidx EXCEPT ![t] = Head(free)]
            /\ tpc' = [tpc EXCEPT ![t] = "index_lease"]
    /\ UNCHANGED <<in_use, permits, pending, tlegacy, trel, trounds>>
    /\ UNCHANGED <<engineVars, sellVars, rpcVars, bufVars, gateVars, buildVars, batchVars>>

\* An explicit release_index(idx) by the holder of an IndexLease.
ReleaseIndex(t) ==
    /\ tpc[t] = "index_lease"
    /\ trel[t] < MaxManualRel
    /\ ReleaseIndexEffect(tidx[t])
    /\ trel' = [trel EXCEPT ![t] = @ + 1]
    /\ UNCHANGED <<pending, tpc, tidx, tlegacy, trounds>>
    /\ UNCHANGED <<engineVars, sellVars, rpcVars, bufVars, gateVars, buildVars, batchVars>>

\* Drop for IndexLease: tokio::spawn of a task that calls release_index.
DropIndexLease(t) ==
    /\ tpc[t] = "index_lease"
    /\ pending' = [pending EXCEPT ![tidx[t]] = @ + 1]
    /\ tpc' = [tpc EXCEPT ![t] = "idle"]
    /\ tidx' = [tidx EXCEPT ![t] = NoIdx]
    /\ UNCHANGED <<free, in_use, permits, tlegacy, trel, trounds>>
    /\ UNCHANGED <<engineVars, sellVars, rpcVars, bufVars, gateVars, buildVars, batchVars>>

\* The task spawned by IndexLease::drop runs release_index(index).
SpawnedRelease(i) ==
    /\ pending[i] > 0
    /\ ReleaseIndexEffect(i)
    /\ pending' = [pending EXCEPT ![i] = @ - 1]
    /\ UNCHANGED taskVars
    /\ UNCHANGED <<engineVars, sellVars, rpcVars, bufVars, gateVars, buildVars, batchVars>>

----------------------------------------------------------------------------
\* f64 values the engine computes with.  A value is NaN, a dyadic number
\* n * 2^-e, or 1 - 2^-e.  Every operation below is exact on these values
\* (products and differences of powers of two far inside the f64 range), so
\* the model computes what the IEEE arithmetic of the program computes.

\* f64::EPSILON = 2^-52
EpsExp == 52

NaN      == [k |-> "nan", n |-> 0, e |-> 0]
Dy(n, e) == [k |-> "dy", n |-> n, e |-> e]
Near1(j) == [k |-> "n1", n |-> 0, e |-> j]
Zero     == Dy(0, 0)
One      == Dy(1, 0)

RECURSIVE Pow2(_)
Pow2(e) == IF e = 0 THEN 1 ELSE 2 * Pow2(e - 1)

RECURSIVE Norm(_)
\* canonical form of a dyadic number: n odd, or n = 0 with e = 0
Norm(x) ==
    IF x.n = 0 THEN Zero
    ELSE IF x.e > 0 /\ x.n % 2 = 0 THEN Norm(Dy(x.n \div 2, x.e - 1))
    ELSE x

\* x <= 1.0 for a dyadic x (numerators of the model stay far below 2^20)
LeOne(x) == IF x.e > 20 THEN TRUE ELSE x.n <= Pow2(x.e)

\* x is a number of [0.0, 1.0]
InUnit(x) ==
    \/ x.k = "n1"
    \/ x.k = "dy" /\ x.n >= 0 /\ LeOne(x)

\* x <= f64::EPSILON for x in [0, 1]
LeEpsilon(x) ==
    /\ x.k = "dy"
    /\ \/ x.n <= 0
       \/ /\ x.e >= EpsExp
          /\ IF x.e - EpsExp > 20 THEN TRUE ELSE x.n <= Pow2(x.e - EpsExp)

\* f64::clamp(0.0, 1.0): NaN stays NaN
Clamp01(x) ==
    IF x.k = "dy" /\ x.n < 0 THEN Zero
    ELSE IF x.k = "dy" /\ ~LeOne(x) THEN One
    ELSE x

\* 1.0 - p for p in [0, 1]
OneMinus(p) ==
    IF p.k = "nan" THEN NaN
    ELSE IF p.k = "n1" THEN Dy(1, p.e)
    ELSE Norm(Dy(Pow2(p.e) - p.n, p.e))

\* a * b
Mul(a, b) ==
    IF a.k # "dy" \/ b.k # "dy" THEN NaN
    ELSE Norm(Dy(a.n * b.n, a.e + b.e))

\* f64::max(0.0): the other operand when one is NaN
Max0(x) == IF x.k = "nan" \/ (x.k = "dy" /\ x.n < 0) THEN Zero ELSE x

\* validator().validate_holdings_percent: accepts a finite value of [0, 1]
ValidateHoldingsPercent(x) == [ok |-> InUnit(x), v |-> x]

----------------------------------------------------------------------------
\* AppState and the execution engine

\* distinct mints the sniffer reports
NumMints == 2
\* candidates the sniffer sends before it stops
MaxSent == 2
\* sell calls that may be in flight at once
NumSellers == 2

Mints      == 1 .. NumMints
Programs   == {"pump.fun", "other"}
Candidates == [mint : Mints, program : Programs]
Sellers    == 1 .. NumSellers

\* self.config.nonce_count, the K of a buy attempt
NonceCount == nonce_count

\* Mode
Sniffing        == [tag |-> "Sniffing", mint |-> 0]
PassiveToken(m) == [tag |-> "PassiveToken", mint |-> m]

\* Option<PremintCandidate>, Option<f64>
NoneCand    == [some |-> FALSE, mint |-> 0, program |-> ""]
SomeCand(c) == [some |-> TRUE, mint |-> c.mint, program |-> c.program]
NonePrice   == [some |-> FALSE, v |-> Zero]
SomePrice(x) == [some |-> TRUE, v |-> x]

\* AppState::is_sniffing
IsSniffing(s) == s.mode.tag = "Sniffing"

\* BuyEngine::get_execution_price_mock
ExecPrice == One

\* a buy that wrote its holdings as a percentage, 100.0
BuyHoldingsAsPercent == Dy(100, 0)

\* holdings_percent written by a successful buy
BuyHoldings == One

\* BuyEngine::is_candidate_interesting
IsCandidateInteresting(c) == c.program = "pump.fun"

\* The percent arguments handed to sell: NaN, -0.5, 0.0, two values just
\* below 1.0 (the second is the largest f64 below 1.0), 1.0 and 1.5.
Percents ==
    {NaN, Dy(-1, 1), Zero, Near1(EpsExp \div 2), Near1(EpsExp + 1), One, Dy(3, 1)}

\* outcomes of validate_candidate
Verdicts == {"ok", "security_rejected"}

\* check_mint_rate_limit(&candidate.mint, 60, 5): attempts allowed per mint
\* in one window
RateLimitMax == 5

\* the counters run increments
CounterNames ==
    {"buy_attempts_security_rejected", "buy_attempts_rate_limited",
     "buy_attempts_filtered", "buy_attempts_total",
     "buy_success_total", "buy_failure_total"}

\* metrics().increment_counter(name)
IncrementCounter(cs, name) == [cs EXCEPT ![name] = @ + 1]

\* check_mint_rate_limit: a mint is admitted while fewer than RateLimitMax
\* attempts are recorded for it in the window; an admitted attempt is
\* recorded.  A run of the model lies within one window.
RateLimitAdmits(lim, mint) == lim[mint] < RateLimitMax
RateLimitRecord(lim, mint) ==
    IF RateLimitAdmits(lim, mint) THEN [lim EXCEPT ![mint] = @ + 1] ELSE lim

\* a gate that lets every program tag through
GateAnyProgram(c, verdict, lim) ==
    IF verdict # "ok" THEN "buy_attempts_security_rejected"
    ELSE IF ~RateLimitAdmits(lim, c.mint) THEN "buy_attempts_rate_limited"
    ELSE "buy_attempts_total"

\* run, sniffing branch: the three checks a received candidate passes, in
\* the order of the code; the value is the counter the candidate increments
Gate(c, verdict, lim) ==
    IF verdict # "ok" THEN "buy_attempts_security_rejected"
    ELSE IF ~RateLimitAdmits(lim, c.mint) THEN "buy_attempts_rate_limited"
    ELSE IF ~IsCandidateInteresting(c) THEN "buy_attempts_filtered"
    ELSE "buy_attempts_total"

\* validator() and metrics() before the engine has received anything
InitGate ==
    /\ limiter = [m \in Mints |-> 0]
    /\ counters = [n \in CounterNames |-> 0]

\* AppState as main() and the tests construct it
InitEngine ==
    /\ st = [mode |-> Sniffing, active_token |-> NoneCand,
             last_buy_price |-> NonePrice, holdings_percent |-> Zero]
    /\ chan = <<>>
    /\ chanClosed = FALSE
    /\ sent = 0
    /\ epc = "top"
    /\ ecand = NoneCand
    /\ acquired = <<>>
    /\ ntxs = 0
    /\ buyres = "none"
    /\ permits0 = permits
    /\ taken = {}

\* the locals of a sell call that is not running
NoRead == [mint |-> 0, cur |-> Zero, pct |-> Zero, raw |-> Zero]

InitSell ==
    /\ spc = [s \in Sellers |-> "idle"]
    /\ sread = [s \in Sellers |-> NoRead]
    /\ snew = [s \in Sellers |-> Zero]
    /\ sres = [s \in Sellers |-> "none"]

\* the sniffer sends a candidate
Send(c) ==
    /\ ~chanClosed
    /\ sent < MaxSent
    /\ chan' = Append(chan, c)
    /\ sent' = sent + 1
    /\ UNCHANGED <<st, chanClosed, epc, ecand, acquired, ntxs, buyres, permits0, taken>>
    /\ UNCHANGED <<slotVars, taskVars, sellVars, rpcVars, bufVars, gateVars, buildVars, batchVars>>

\* every sender is dropped
CloseChannel ==
    /\ ~chanClosed
    /\ chanClosed' = TRUE
    /\ UNCHANGED <<st, chan, sent, epc, ecand, acquired, ntxs, buyres, permits0, taken>>
    /\ UNCHANGED <<slotVars, taskVars, sellVars, rpcVars, bufVars, gateVars, buildVars, batchVars>>

\* a loop head that takes the sniffing branch whatever the mode
EngineCheckModeNot ==
    /\ epc = "top"
    /\ epc' = "recv_sniff"
    /\ UNCHANGED <<st, chan, chanClosed, sent, ecand, acquired, ntxs, buyres, permits0, taken>>
    /\ UNCHANGED <<slotVars, taskVars, sellVars, rpcVars, bufVars, gateVars, buildVars, batchVars>>

\* run: the loop head reads is_sniffing() under the lock
EngineCheckMode ==
    /\ epc = "top"
    /\ epc' = IF IsSniffing(st) THEN "recv_sniff" ELSE "recv_passive"
    /\ UNCHANGED <<st, chan, chanClosed, sent, ecand, acquired, ntxs, buyres, permits0, taken>>
    /\ UNCHANGED <<slotVars, taskVars, sellVars, rpcVars, bufVars, gateVars, buildVars, batchVars>>

\* run: timeout(recv()) elapses with nothing received
EngineRecvTimeout ==
    /\ epc \in {"recv_sniff", "recv_passive"}
    /\ chan = <<>>
    /\ ~chanClosed
    /\ epc' = "top"
    /\ UNCHANGED <<st, chan, chanClosed, sent, ecand, acquired, ntxs, buyres, permits0, taken>>
    /\ UNCHANGED <<slotVars, taskVars, sellVars, rpcVars, bufVars, gateVars, buildVars, batchVars>>

\* run: recv() yields None, the loop breaks
EngineRecvClosed ==
    /\ epc \in {"recv_sniff", "recv_passive"}
    /\ chan = <<>>
    /\ chanClosed
    /\ epc' = "stopped"
    /\ UNCHANGED <<st, chan, chanClosed, sent, ecand, acquired, ntxs, buyres, permits0, taken>>
    /\ UNCHANGED <<slotVars, taskVars, sellVars, rpcVars, bufVars, gateVars, buildVars, batchVars>>

\* a passive branch that hands the received candidate to try_buy
EngineRecvPassiveBuys ==
    /\ epc = "recv_passive"
    /\ chan # <<>>
    /\ chan' = Tail(chan)
    /\ epc' = "tb_acquire"
    /\ ecand' = SomeCand(Head(chan))
    /\ UNCHANGED <<st, chanClosed, sent, acquired, ntxs, buyres, permits0, taken>>
    /\ UNCHANGED <<slotVars, taskVars, sellVars, rpcVars, bufVars, gateVars, buildVars, batchVars>>

\* run, passive branch: a received candidate is ignored
EngineRecvPassive ==
    /\ epc = "recv_passive"
    /\ chan # <<>>
    /\ chan' = Tail(chan)
    /\ epc' = "top"
    /\ UNCHANGED <<st, chanClosed, sent, ecand, acquired, ntxs, buyres, permits0, taken>>
    /\ UNCHANGED <<slotVars, taskVars, sellVars, rpcVars, bufVars, gateVars, buildVars, batchVars>>

\* run, sniffing branch: a received candidate is validated, rate limited and
\* filtered; an accepted one enters try_buy
EngineRecvSniffing(verdict) ==
    /\ epc = "recv_sniff"
    /\ chan # <<>>
    /\ chan' = Tail(chan)
    /\ counters' = IncrementCounter(counters, Gate(Head(chan), verdict, limiter))
    /\ limiter' = IF verdict = "ok" THEN RateLimitRecord(limiter, Head(chan).mint)
                  ELSE limiter
    /\ IF Gate(Head(chan), verdict, limiter) = "buy_attempts_total"
       THEN /\ epc' = IF NonceCount = 0 THEN "tb_after" ELSE "tb_acquire"
            /\ ecand' = SomeCand(Head(chan))
            /\ acquired' = <<>>
            /\ ntxs' = 0
            /\ buyres' = "none"
            /\ permits0' = permits
            /\ taken' = {}
       ELSE /\ epc' = "top"
            /\ UNCHANGED <<ecand, acquired, ntxs, buyres, permits0, taken>>
    /\ UNCHANGED <<st, chanClosed, sent>>
    /\ UNCHANGED <<slotVars, taskVars, sellVars, rpcVars, bufVars, buildVars, batchVars>>

\* try_buy, loop body: acquire_nonce().await; Err breaks out of the loop
TbAcquire ==
    /\ epc = "tb_acquire"
    /\ permits > 0
    /\ IF free = <<>>
       THEN /\ epc' = "tb_after"
            /\ UNCHANGED <<free, in_use, permits, acquired, taken>>
       ELSE /\ free' = Tail(free)
            /\ in_use' = in_use \cup {Head(free)}
            /\ permits' = permits - 1
            /\ acquired' = Append(acquired, Head(free))
            /\ taken' = taken \cup {Head(free)}
            /\ epc' = "tb_build"
    /\ UNCHANGED <<st, chan, chanClosed, sent, ecand, ntxs, buyres, permits0, pending>>
    /\ UNCHANGED <<taskVars, sellVars, rpcVars, bufVars, gateVars, buildVars, batchVars>>

\* blockhashes the builder's cache may hold while one attempt builds
NumBlockhashes == 2
Blockhashes == 1 .. NumBlockhashes

\* What distinguishes one transaction from another: the instruction's
\* program, the mint and amount it names, the message's recent blockhash and
\* the accounts it moves lamports between (0 where there are none).
\* build_buy_transaction: compute-budget prelude of the default config, one
\* buy instruction made from the candidate and the config, the wallet as
\* payer, the builder's recent blockhash.  Nothing of the acquired slot
\* reaches the builder.
BuiltTx(c, bh) ==
    [program |-> c.program, mint |-> c.mint, blockhash |-> bh, from |-> 0, to |-> 0]

\* create_placeholder_tx: a transfer of 1 lamport between two keys drawn
\* from Pubkey::new_unique(), with the default blockhash
PlaceholderTx(u) ==
    [program |-> "system", mint |-> 0, blockhash |-> 0, from |-> u + 1, to |-> u + 2]

\* create_buy_transaction: the builder when there is one, else the placeholder
CreateBuyTransaction(hasBuilder, c, bh, u) ==
    IF hasBuilder THEN BuiltTx(c, bh) ELSE PlaceholderTx(u)

\* BuyEngine { .. tx_builder, .. } and the key counter of a fresh process
InitBatch(hasBuilder, k) ==
    /\ nonce_count = k
    /\ tx_builder = hasBuilder
    /\ txs = <<>>
    /\ uniq = 0

\* a loop body that builds a transaction and does not push it onto txs
TbBuildDropsTx(ok, bh) ==
    /\ epc = "tb_build"
    /\ ok \/ tx_builder
    /\ IF ok
       THEN /\ epc' = IF Len(acquired) < NonceCount THEN "tb_acquire" ELSE "tb_after"
            /\ uniq' = IF tx_builder THEN uniq ELSE uniq + 2
            /\ UNCHANGED <<ntxs, buyres, txs>>
       ELSE /\ buyres' = "err"
            /\ epc' = "buy_done"
            /\ UNCHANGED <<ntxs, txs, uniq>>
    /\ UNCHANGED <<st, chan, chanClosed, sent, ecand, acquired, permits0, taken, tx_builder, nonce_count>>
    /\ UNCHANGED <<slotVars, taskVars, sellVars, rpcVars, bufVars, gateVars, buildVars>>

\* try_buy, loop body: create_buy_transaction(..).await?; txs.push(tx).  A
\* builder error leaves try_buy at once; the placeholder never fails.  bh is
\* the blockhash the builder's cache holds at this build.
TbBuild(ok, bh) ==
    /\ epc = "tb_build"
    /\ ok \/ tx_builder
    /\ IF ok
       THEN /\ ntxs' = ntxs + 1
            /\ txs' = Append(txs, CreateBuyTransaction(tx_builder, ecand, bh, uniq))
            /\ uniq' = IF tx_builder THEN uniq ELSE uniq + 2
            /\ epc' = IF Len(acquired) < NonceCount THEN "tb_acquire" ELSE "tb_after"
            /\ UNCHANGED buyres
       ELSE /\ buyres' = "err"
            /\ epc' = "buy_done"
            /\ UNCHANGED <<ntxs, txs, uniq>>
    /\ UNCHANGED <<st, chan, chanClosed, sent, ecand, acquired, permits0, taken, tx_builder, nonce_count>>
    /\ UNCHANGED <<slotVars, taskVars, sellVars, rpcVars, bufVars, gateVars, buildVars>>

\* try_buy after the loop.  With no transaction prepared it returns an error;
\* otherwise send_on_many_rpc(txs).await and the result of the send.  Both
\* paths run `for idx in acquired_indices { release_nonce(idx); }`:
\* release_nonce is an async fn and the call is not awaited, so each future is
\* dropped without being polled and the slot manager is left as it is.
TbAfterLoop(ok) ==
    /\ epc = "tb_after"
    /\ acquired' = <<>>
    /\ buyres' = IF ntxs > 0 /\ ok THEN "ok" ELSE "err"
    /\ epc' = "buy_done"
    /\ UNCHANGED <<st, chan, chanClosed, sent, ecand, ntxs, permits0, taken>>
    /\ UNCHANGED <<slotVars, taskVars, sellVars, rpcVars, bufVars, gateVars, buildVars, batchVars>>

\* a buy that entered PassiveToken without recording the token it holds
BoughtStateNoToken(c) ==
    [mode |-> PassiveToken(c.mint),
     active_token |-> NoneCand,
     last_buy_price |-> SomePrice(ExecPrice),
     holdings_percent |-> BuyHoldings]

\* the AppState a successful buy of candidate c writes
BoughtState(c) ==
    [mode |-> PassiveToken(c.mint),
     active_token |-> c,
     last_buy_price |-> SomePrice(ExecPrice),
     holdings_percent |-> BuyHoldings]

\* the locals of one loop iteration of run go out of scope
EndOfAttempt ==
    /\ ecand' = NoneCand
    /\ acquired' = <<>>
    /\ ntxs' = 0
    /\ buyres' = "none"
    /\ permits0' = permits
    /\ taken' = {}
    /\ txs' = <<>>
    /\ UNCHANGED <<nonce_count, tx_builder, uniq>>

\* run: Ok(sig) => the four fields are written under one lock
EngineBuyOk ==
    /\ epc = "buy_done"
    /\ buyres = "ok"
    /\ st' = BoughtState(ecand)
    /\ epc' = "top"
    /\ EndOfAttempt
    /\ UNCHANGED <<chan, chanClosed, sent>>
    /\ UNCHANGED <<slotVars, taskVars, sellVars, rpcVars, bufVars, buildVars>>
    /\ counters' = IncrementCounter(counters, "buy_success_total")
    /\ UNCHANGED limiter

\* run: Err(e) => "BUY attempt failed; staying in Sniffing"
EngineBuyErr ==
    /\ epc = "buy_done"
    /\ buyres = "err"
    /\ epc' = "top"
    /\ EndOfAttempt
    /\ UNCHANGED <<st, chan, chanClosed, sent>>
    /\ UNCHANGED <<slotVars, taskVars, sellVars, rpcVars, bufVars, buildVars>>
    /\ counters' = IncrementCounter(counters, "buy_failure_total")
    /\ UNCHANGED limiter

\* new_holdings of sell: (current_pct * (1.0 - pct)).max(0.0)
NewHoldings(cur, pct) == Max0(Mul(cur, OneMinus(pct)))

\* a sell that left the position only strictly below f64::EPSILON
SoldOutStrict(h) == LeEpsilon(h) /\ Norm(h) # Dy(1, EpsExp)

\* holdings_percent <= f64::EPSILON, the test after which sell leaves the position
SoldOut(h) == LeEpsilon(h)

\* a sell that went on to the broadcast whatever the mode
SellAdmitsAlways(state) == TRUE

\* sell: the mode read is PassiveToken(mint) and an active token is recorded
SellAdmits(state) == ~IsSniffing(state) /\ state.active_token.some

\* the error sell returns before the broadcast, by the first check that fails
SellError(state, pctOk, nhOk) ==
    IF ~pctOk THEN "Invalid sell percentage"
    ELSE IF IsSniffing(state) THEN "not in PassiveToken mode"
    ELSE IF ~state.active_token.some THEN "no active token in AppState"
    ELSE IF ~nhOk THEN "Holdings calculation error"
    ELSE "sell transaction not built"

\* sell, up to the broadcast: validate percent, read AppState under the lock,
\* check the mode and the active token, compute and validate new_holdings,
\* build the sell transaction
SellStart(s, percent, built) ==
    /\ spc[s] = "idle"
    /\ LET pct == ValidateHoldingsPercent(Clamp01(percent))
           nh  == ValidateHoldingsPercent(NewHoldings(st.holdings_percent, pct.v))
       IN IF /\ pct.ok
             /\ SellAdmits(st)
             /\ nh.ok
             /\ built
          THEN /\ spc' = [spc EXCEPT ![s] = "sending"]
               /\ sread' = [sread EXCEPT ![s] = [mint |-> st.mode.mint,
                                                 cur |-> st.holdings_percent,
                                                 pct |-> pct.v,
                                                 raw |-> percent]]
               /\ snew' = [snew EXCEPT ![s] = nh.v]
               /\ sres' = [sres EXCEPT ![s] = "none"]
          ELSE /\ sres' = [sres EXCEPT ![s] = SellError(st, pct.ok, nh.ok)]
               /\ UNCHANGED <<spc, sread, snew>>
    /\ UNCHANGED <<engineVars, slotVars, taskVars, rpcVars, bufVars, gateVars, buildVars, batchVars>>

\* a sell that leaves the position and keeps the recorded buy price
SoldStateKeepsPrice(state, nh) ==
    IF SoldOut(nh)
    THEN [mode |-> Sniffing, active_token |-> NoneCand,
          last_buy_price |-> state.last_buy_price, holdings_percent |-> nh]
    ELSE [state EXCEPT !.holdings_percent = nh]

\* sell, Ok branch: the AppState after the writes made under one lock
SoldState(state, nh) ==
    IF SoldOut(nh)
    THEN [mode |-> Sniffing, active_token |-> NoneCand,
          last_buy_price |-> NonePrice, holdings_percent |-> nh]
    ELSE [state EXCEPT !.holdings_percent = nh]

\* sell, after send_on_many_rpc: Ok writes new_holdings under the lock and
\* leaves the position when nothing is left; Err changes nothing
SellFinish(s, ok) ==
    /\ spc[s] = "sending"
    /\ spc' = [spc EXCEPT ![s] = "idle"]
    /\ sres' = [sres EXCEPT ![s] = IF ok THEN "ok" ELSE "SELL failed to broadcast"]
    /\ IF ok
       THEN st' = SoldState(st, snew[s])
       ELSE UNCHANGED st
    /\ sread' = [sread EXCEPT ![s] = NoRead]
    /\ snew' = [snew EXCEPT ![s] = Zero]
    /\ UNCHANGED <<chan, chanClosed, sent, epc, ecand, acquired, ntxs, buyres, permits0, taken>>
    /\ UNCHANGED <<slotVars, taskVars, rpcVars, bufVars, gateVars, buildVars, batchVars>>

----------------------------------------------------------------------------
\* RpcManager

\* endpoints a manager is configured with, at most
MaxEndpoints == 2
\* transactions handed to one send, at most
MaxTxs == 1

BroadcastModes == {"Pairwise", "ReplicateSingle", "RoundRobin", "FullFanout"}

\* What an endpoint answers to send_transaction_with_config: a signature, an
\* RPC response error carrying a message, or nothing within SEND_TIMEOUT.  A
\* message is given by the phrases classify_rpc_error looks for in its
\* lower-cased text.
Sig       == [kind |-> "sig", msg |-> {}]
Elapsed   == [kind |-> "elapsed", msg |-> {}]
RpcErr(m) == [kind |-> "rpc_error", msg |-> m]
Responses ==
    {Sig, Elapsed,
     RpcErr({"already processed"}),
     RpcErr({"duplicate", "signature"}),
     RpcErr({"blockhash not found"}),
     RpcErr({"duplicate"})}

\* classify_rpc_error on an RpcResponseError message
ClassifyRpcError(msg) ==
    IF "already processed" \in msg \/ "transaction was already processed" \in msg
        THEN "AlreadyProcessed"
    ELSE IF "duplicate" \in msg /\ "signature" \in msg
        THEN "DuplicateSignature"
    ELSE IF "blockhash not found" \in msg \/ "blockhash has expired" \in msg
        THEN "BlockhashNotFound"
    ELSE IF "transaction expired" \in msg \/ "block height exceeded" \in msg
        THEN "TransactionExpired"
    ELSE IF "node behind" \in msg \/ ("slot" \in msg /\ "behind" \in msg)
        THEN "NodeBehind"
    ELSE IF "slot" \in msg /\ "skew" \in msg
        THEN "SlotSkew"
    ELSE IF "rate limit" \in msg \/ "rate-limit" \in msg
        THEN "RateLimited"
    ELSE IF "too many requests" \in msg \/ "request limit" \in msg
        THEN "TooManyRequests"
    ELSE "Other"

\* is_soft_success
IsSoftSuccess(errorType) == errorType \in {"AlreadyProcessed", "DuplicateSignature"}

\* A signature: byte 0, byte 1, and the value every other byte has (the
\* model's real signatures are [7u8; 64], as the test broadcaster's).
Signature(b0, b1, rest) == [b0 |-> b0, b1 |-> b1, rest |-> rest]
RealSig == Signature(7, 7, 7)
NoSig   == Signature(0, 0, 0)

\* the soft-success signature of broadcast_full_fanout:
\* sig_bytes[0] = i as u8; sig_bytes[1] = 0xFF
SoftSig(i) == Signature(i % 256, 255, 0)

Ok(sig) == [ok |-> TRUE, sig |-> sig]
Err     == [ok |-> FALSE, sig |-> NoSig]

\* Result of send_single_tx: only a signature is a success
SendSingleTx(ep, resp) == IF resp.kind = "sig" THEN Ok(RealSig) ELSE Err

\* Result of the task broadcast_full_fanout spawns: an error that classifies
\* as soft success yields the synthetic signature
FanoutTask(ep, resp) ==
    IF resp.kind = "sig" THEN Ok(RealSig)
    ELSE IF resp.kind = "rpc_error" /\ IsSoftSuccess(ClassifyRpcError(resp.msg))
        THEN Ok(SoftSig(ep))
    ELSE Err

Min(a, b) == IF a < b THEN a ELSE b

\* The (endpoint, transaction) pairs a broadcast spawns, in spawn order.
\* broadcast_pairwise: tx[i] -> endpoint[i] for i < min(endpoints, txs)
PairwisePairs(ne, nt) == [i \in 1 .. Min(ne, nt) |-> [ep |-> i - 1, tx |-> i - 1]]
\* broadcast_replicate_single: txs[0] to every endpoint
ReplicatePairs(ne, nt) == [i \in 1 .. ne |-> [ep |-> i - 1, tx |-> 0]]
\* broadcast_round_robin: tx[i] -> endpoint[i % endpoints]
RoundRobinPairs(ne, nt) == [i \in 1 .. nt |-> [ep |-> (i - 1) % ne, tx |-> i - 1]]
\* broadcast_full_fanout: for endpoint { for tx { spawn } }
FanoutPairs(ne, nt) ==
    [i \in 1 .. (ne * nt) |-> [ep |-> (i - 1) \div nt, tx |-> (i - 1) % nt]]

\* send_on_many_rpc: the dispatch on broadcast_mode
SpawnPairs(mode, ne, nt) ==
    CASE mode = "Pairwise"        -> PairwisePairs(ne, nt)
      [] mode = "ReplicateSingle" -> ReplicatePairs(ne, nt)
      [] mode = "RoundRobin"      -> RoundRobinPairs(ne, nt)
      [] mode = "FullFanout"      -> FanoutPairs(ne, nt)

\* the body of the task a broadcast spawns
TaskResult(mode, ep, resp) ==
    IF mode = "FullFanout" THEN FanoutTask(ep, resp) ELSE SendSingleTx(ep, resp)

\* a wait that took the first task to finish, whatever it returned
IsFirstSuccessAnyJoin(res) == TRUE

\* wait_for_first_success: the join result that ends the wait, Ok(Ok(sig))
IsFirstSuccess(res) == res.ok

\* EndpointMetrics::new: the counters of an endpoint nothing was sent to
NewMetrics == [success_count |-> 0, failure_count |-> 0]

\* EndpointMetrics::record_success / record_failure
RecordSuccess(m) == [m EXCEPT !.success_count = @ + 1]
RecordFailure(m) == [m EXCEPT !.failure_count = @ + 1]


\* the task body records metrics: send_single_tx does, the body
\* broadcast_full_fanout spawns does not
RecordsMetrics(mode) == mode # "FullFanout"

\* the metrics after the task of mode `mode` got answer resp from endpoint ep
Recorded(ms, mode, ep, resp) ==
    IF ~RecordsMetrics(mode) THEN ms
    ELSE [ms EXCEPT ![ep] = IF resp.kind = "sig" THEN RecordSuccess(@)
                                                 ELSE RecordFailure(@)]

\* the transactions each caller hands over: try_buy one per acquired slot,
\* sell its single sell transaction
Callers == {"buy", "sell"}
HandsOver(who, nt) == who = "sell" => nt = 1

\* RpcManager::with_mode, before any send
InitRpc(ne, mode) ==
    /\ endpoints = ne
    /\ bmode = mode
    /\ rpc = "idle"
    /\ ntx = 0
    /\ sub = <<>>
    /\ sendres = Err
    /\ metrics = [e \in 0 .. (ne - 1) |-> NewMetrics]
    /\ caller = "buy"

\* send_on_many_rpc(txs): Err at once without endpoints or transactions,
\* otherwise one task per pair is spawned into the JoinSet
RpcSend(who, nt) ==
    /\ rpc = "idle"
    /\ HandsOver(who, nt)
    /\ caller' = who
    /\ ntx' = nt
    /\ IF endpoints = 0 \/ nt = 0
       THEN /\ rpc' = "returned"
            /\ sendres' = Err
            /\ UNCHANGED sub
       ELSE /\ rpc' = "joining"
            /\ sub' = [i \in DOMAIN SpawnPairs(bmode, endpoints, nt) |->
                         [ep    |-> SpawnPairs(bmode, endpoints, nt)[i].ep,
                          tx    |-> SpawnPairs(bmode, endpoints, nt)[i].tx,
                          state |-> "running",
                          resp  |-> Elapsed,
                          res   |-> Err]]
            /\ UNCHANGED sendres
    /\ UNCHANGED <<endpoints, bmode, metrics>>
    /\ UNCHANGED <<slotVars, taskVars, engineVars, sellVars, bufVars, gateVars, buildVars, batchVars>>

\* a spawned task gets its answer (or its timeout), records it and returns
SubComplete(k, resp) ==
    /\ k \in DOMAIN sub
    /\ sub[k].state = "running"
    /\ sub' = [sub EXCEPT ![k] = [@ EXCEPT !.state = "done",
                                          !.resp = resp,
                                          !.res = TaskResult(bmode, sub[k].ep, resp)]]
    /\ metrics' = Recorded(metrics, bmode, sub[k].ep, resp)
    /\ UNCHANGED <<endpoints, bmode, rpc, ntx, sendres, caller>>
    /\ UNCHANGED <<slotVars, taskVars, engineVars, sellVars, bufVars, gateVars, buildVars, batchVars>>

\* wait_for_first_success: join_next() yields a completed task; the first
\* success aborts the others and is returned
JoinNext(k) ==
    /\ rpc = "joining"
    /\ k \in DOMAIN sub
    /\ sub[k].state = "done"
    /\ IF IsFirstSuccess(sub[k].res)
       THEN /\ sub' = [i \in DOMAIN sub |->
                         IF i = k THEN [sub[i] EXCEPT !.state = "joined"]
                         ELSE IF sub[i].state = "running"
                              THEN [sub[i] EXCEPT !.state = "aborted"]
                              ELSE sub[i]]
            /\ sendres' = Ok(sub[k].res.sig)
            /\ rpc' = "returned"
       ELSE /\ sub' = [sub EXCEPT ![k].state = "joined"]
            /\ UNCHANGED <<sendres, rpc>>
    /\ UNCHANGED <<endpoints, bmode, ntx, metrics, caller>>
    /\ UNCHANGED <<slotVars, taskVars, engineVars, sellVars, bufVars, gateVars, buildVars, batchVars>>

\* wait_for_first_success: join_next() yields None, every attempt failed
JoinNone ==
    /\ rpc = "joining"
    /\ \A k \in DOMAIN sub : sub[k].state = "joined"
    /\ sendres' = Err
    /\ rpc' = "returned"
    /\ UNCHANGED <<endpoints, bmode, ntx, sub, metrics, caller>>
    /\ UNCHANGED <<slotVars, taskVars, engineVars, sellVars, bufVars, gateVars, buildVars, batchVars>>

\* The sub-task in steps.  The tasks run on the workers of the multi-thread
\* runtime next to the task that waits in wait_for_first_success, and
\* abort_all() only asks a task to stop at its next suspension: a task that
\* is being polled when the abort arrives goes on to the end of that poll.

\* metrics updates recorded before a further send may start, at most
MaxRecorded == 1

\* the attempts the metrics have recorded, over the endpoints 0 .. (n - 1)
RECURSIVE RecordedUpTo(_, _)
RecordedUpTo(ms, n) ==
    IF n = 0 THEN 0
    ELSE ms[n - 1].success_count + ms[n - 1].failure_count + RecordedUpTo(ms, n - 1)

\* send_single_tx: the send's future resolves with the endpoint's answer or
\* the timeout fires; the task is now running towards its metrics update
SubAnswer(k, resp) ==
    /\ k \in DOMAIN sub
    /\ sub[k].state = "running"
    /\ sub' = [sub EXCEPT ![k] = [@ EXCEPT !.state = "answered",
                                          !.resp = resp,
                                          !.res = TaskResult(bmode, sub[k].ep, resp)]]
    /\ UNCHANGED <<endpoints, bmode, rpc, ntx, sendres, metrics, caller>>
    /\ UNCHANGED <<slotVars, taskVars, engineVars, sellVars, bufVars, gateVars, buildVars, batchVars>>

\* send_single_tx: the task locks the metrics, records the answer and
\* returns; nothing in it looks at whether the send has returned
SubRecord(k) ==
    /\ k \in DOMAIN sub
    /\ sub[k].state = "answered"
    /\ sub' = [sub EXCEPT ![k].state = "done"]
    /\ metrics' = Recorded(metrics, bmode, sub[k].ep, sub[k].resp)
    /\ UNCHANGED <<endpoints, bmode, rpc, ntx, sendres, caller>>
    /\ UNCHANGED <<slotVars, taskVars, engineVars, sellVars, bufVars, gateVars, buildVars, batchVars>>

\* the abort reaches a task that suspended on the metrics lock before its
\* update: it is dropped there
SubCancel(k) ==
    /\ k \in DOMAIN sub
    /\ sub[k].state = "answered"
    /\ rpc = "returned"
    /\ sub' = [sub EXCEPT ![k].state = "aborted"]
    /\ UNCHANGED <<endpoints, bmode, rpc, ntx, sendres, metrics, caller>>
    /\ UNCHANGED <<slotVars, taskVars, engineVars, sellVars, bufVars, gateVars, buildVars, batchVars>>

\* the caller is back from a send and the manager is ready for the next
\* one, with the metrics the earlier sends left; the tasks of the earlier
\* send have come to their end
RpcAgain ==
    /\ rpc = "returned"
    /\ \A k \in DOMAIN sub : sub[k].state # "answered"
    /\ RecordedUpTo(metrics, endpoints) <= MaxRecorded
    /\ rpc' = "idle"
    /\ sub' = <<>>
    /\ UNCHANGED <<endpoints, bmode, ntx, sendres, metrics, caller>>
    /\ UNCHANGED <<slotVars, taskVars, engineVars, sellVars, bufVars, gateVars, buildVars, batchVars>>

----------------------------------------------------------------------------
\* CandidateBuffer

\* distinct mints offered to the buffer
NumBufMints == 3
\* largest ttl, in clock ticks
MaxTtl == 2
\* largest max_size
MaxSize == 2
\* last instant of the clock
MaxTime == 2

BufMints == 1 .. NumBufMints
Instants == 0 .. MaxTime

\* PremintCandidate as the buffer sees it: the mint it is keyed by, and the
\* timestamp that tells two candidates of one mint apart (mk_candidate(1, 1)
\* and mk_candidate(1, 2) of push_and_dedup)
BufCandidates == [mint : BufMints, timestamp : {1, 2}]
NoCandidate   == [mint |-> 0, timestamp |-> 0]

\* HashMap::new()
EmptyMap == [k \in {} |-> [cand |-> NoCandidate, seen_at |-> 0]]

\* the map without the keys outside keys
Restrict(mp, keys) == [k \in keys |-> mp[k]]

\* map.insert(c.mint, (c, at))
Insert(mp, c, at) ==
    [k \in DOMAIN mp \cup {c.mint} |->
        IF k = c.mint THEN [cand |-> c, seen_at |-> at] ELSE mp[k]]

\* the retain predicate of cleanup: at.duration_since(seen_at) < ttl
Unexpired(e, t, at) == at - e.seen_at < t

\* a cleanup that removes nothing
CleanupKeepsAll(mp, t, at) == mp

\* cleanup on a map: a zero ttl clears it, otherwise the entries that are
\* not expired at instant `at` are retained
Cleanup(mp, t, at) ==
    IF t = 0 THEN EmptyMap
    ELSE Restrict(mp, {k \in DOMAIN mp : Unexpired(mp[k], t, at)})

\* a selection of the entry seen last
Newest(mp) ==
    {k \in DOMAIN mp : \A j \in DOMAIN mp : mp[k].seen_at >= mp[j].seen_at}

\* the keys min_by_key(seen_at) can yield: among equal instants the first in
\* the HashMap's iteration order, which is any of them
Oldest(mp) ==
    {k \in DOMAIN mp : \A j \in DOMAIN mp : mp[k].seen_at <= mp[j].seen_at}

\* a capacity test that is late by one entry
AtCapacityStrict(mp, ms) == Cardinality(DOMAIN mp) > ms /\ ms > 0

\* push: len >= max_size && max_size > 0
AtCapacity(mp, ms) == Cardinality(DOMAIN mp) >= ms /\ ms > 0

\* push: the maps the capacity rule can leave
Evict(mp, ms) ==
    IF AtCapacity(mp, ms)
    THEN {Restrict(mp, DOMAIN mp \ {k}) : k \in Oldest(mp)}
    ELSE {mp}

\* what a buffer operation did: push returned ok, pop_best returned cand
\* (ok = Some), cleanup returned n; for a push n counts the entries the
\* capacity rule evicted, and back tells that the pushed mint had been
\* returned by pop_best earlier and is stored again by this push
BufRet(op, cand, ok, n) ==
    [op |-> op, cand |-> cand, ok |-> ok, n |-> n, back |-> FALSE]

\* CandidateBuffer::new(ttl, max_size)
InitBuf(t, ms) ==
    /\ map = EmptyMap
    /\ ttl = t
    /\ max_size = ms
    /\ now = 0
    /\ bufres = BufRet("new", NoCandidate, FALSE, 0)
    /\ popped = {}

\* a push whose de-duplication also remembers the mints pop_best returned
BufPushRemembers(c, dt) ==
    /\ now + dt <= MaxTime
    /\ LET live == Cleanup(map, ttl, now) IN
         IF c.mint \in DOMAIN live \cup popped
         THEN /\ dt = 0
              /\ map' = live
              /\ bufres' = BufRet("push", c, FALSE, 0)
              /\ UNCHANGED <<now, popped>>
         ELSE /\ \E kept \in Evict(live, max_size) :
                    /\ map' = Insert(kept, c, now + dt)
                    /\ bufres' = [BufRet("push", c, TRUE,
                                         Cardinality(DOMAIN live) - Cardinality(DOMAIN kept))
                                  EXCEPT !.back = c.mint \in popped]
              /\ now' = now + dt
              /\ popped' = popped \ {c.mint}
    /\ UNCHANGED <<ttl, max_size>>
    /\ UNCHANGED <<slotVars, taskVars, engineVars, sellVars, rpcVars, gateVars, buildVars, batchVars>>

\* CandidateBuffer::push(c).  cleanup reads the clock; a stored mint returns
\* false; otherwise the capacity rule evicts and the insert reads the clock
\* again, dt ticks later.
BufPush(c, dt) ==
    /\ now + dt <= MaxTime
    /\ LET live == Cleanup(map, ttl, now) IN
         IF c.mint \in DOMAIN live
         THEN /\ dt = 0
              /\ map' = live
              /\ bufres' = BufRet("push", c, FALSE, 0)
              /\ UNCHANGED <<now, popped>>
         ELSE /\ \E kept \in Evict(live, max_size) :
                    /\ map' = Insert(kept, c, now + dt)
                    /\ bufres' = [BufRet("push", c, TRUE,
                                         Cardinality(DOMAIN live) - Cardinality(DOMAIN kept))
                                  EXCEPT !.back = c.mint \in popped]
              /\ now' = now + dt
              /\ popped' = popped \ {c.mint}
    /\ UNCHANGED <<ttl, max_size>>
    /\ UNCHANGED <<slotVars, taskVars, engineVars, sellVars, rpcVars, gateVars, buildVars, batchVars>>

\* CandidateBuffer::pop_best()
BufPopBest ==
    /\ LET live == Cleanup(map, ttl, now) IN
         IF DOMAIN live = {}
         THEN /\ map' = live
              /\ bufres' = BufRet("pop_best", NoCandidate, FALSE, 0)
              /\ UNCHANGED popped
         ELSE \E k \in Oldest(live) :
                /\ map' = Restrict(live, DOMAIN live \ {k})
                /\ bufres' = BufRet("pop_best", live[k].cand, TRUE, 0)
                /\ popped' = popped \cup {k}
    /\ UNCHANGED <<ttl, max_size, now>>
    /\ UNCHANGED <<slotVars, taskVars, engineVars, sellVars, rpcVars, gateVars, buildVars, batchVars>>

\* CandidateBuffer::cleanup()
BufCleanup ==
    /\ map' = Cleanup(map, ttl, now)
    /\ bufres' = BufRet("cleanup", NoCandidate, FALSE,
                        Cardinality(DOMAIN map) - Cardinality(DOMAIN Cleanup(map, ttl, now)))
    /\ UNCHANGED <<ttl, max_size, now, popped>>
    /\ UNCHANGED <<slotVars, taskVars, engineVars, sellVars, rpcVars, gateVars, buildVars, batchVars>>

\* time passes between two operations
BufTick ==
    /\ now < MaxTime
    /\ now' = now + 1
    /\ UNCHANGED <<map, ttl, max_size, bufres, popped>>
    /\ UNCHANGED <<slotVars, taskVars, engineVars, sellVars, rpcVars, gateVars, buildVars, batchVars>>

----------------------------------------------------------------------------
\* TransactionBuilder

\* a build call: where it is, which transaction it builds, the index its
\* _nonce_guard holds and what it returned
Build(pc, kind, idx, res) == [pc |-> pc, kind |-> kind, idx |-> idx, res |-> res]

\* TransactionBuilder::new: no build has been called
InitBuild == bld = Build("idle", "none", NoIdx, "none")

\* build_buy_transaction / build_sell_transaction: config.validate()?
BuildBegin(kind, valid) ==
    /\ bld.pc = "idle"
    /\ bld' = IF valid THEN Build("acquire", kind, NoIdx, "none")
                      ELSE Build("idle", kind, NoIdx, "Err(config)")
    /\ UNCHANGED <<slotVars, taskVars, engineVars, sellVars, rpcVars, bufVars, gateVars, batchVars>>

\* self.nonce_manager.acquire_nonce().await, first await: sem.acquire()
BuildAcquirePermit ==
    /\ bld.pc = "acquire"
    /\ permits > 0
    /\ permits' = permits - 1
    /\ bld' = [bld EXCEPT !.pc = "permit"]
    /\ UNCHANGED <<free, in_use, pending>>
    /\ UNCHANGED <<taskVars, engineVars, sellVars, rpcVars, bufVars, gateVars, batchVars>>

\* acquire_nonce, free.lock(): pop_front, or Err mapped to NonceAcquisition
BuildAcquirePop ==
    /\ bld.pc = "permit"
    /\ IF free = <<>>
       THEN /\ permits' = permits + 1
            /\ bld' = Build("idle", bld.kind, NoIdx, "Err(NonceAcquisition)")
            /\ UNCHANGED free
       ELSE /\ free' = Tail(free)
            /\ bld' = [bld EXCEPT !.pc = "popped", !.idx = Head(free)]
            /\ UNCHANGED permits
    /\ UNCHANGED <<in_use, pending>>
    /\ UNCHANGED <<taskVars, engineVars, sellVars, rpcVars, bufVars, gateVars, batchVars>>

\* acquire_nonce, in_use.lock(): insert; the lease is bound to _nonce_guard
BuildAcquireMark ==
    /\ bld.pc = "popped"
    /\ in_use' = in_use \cup {bld.idx}
    /\ bld' = [bld EXCEPT !.pc = "building"]
    /\ UNCHANGED <<free, permits, pending>>
    /\ UNCHANGED <<taskVars, engineVars, sellVars, rpcVars, bufVars, gateVars, batchVars>>

\* the rest of the build: blockhash, instructions, message, signatures.  It
\* returns Ok(tx) or leaves through a `?`; either way _nonce_guard goes out
\* of scope and the lease is dropped.
BuildFinish(ok) ==
    /\ bld.pc = "building"
    /\ LET r == ReturnIndex(free, in_use, bld.idx) IN
         /\ free' = r.free
         /\ in_use' = r.in_use
    /\ permits' = permits + 1
    /\ bld' = Build("idle", bld.kind, NoIdx, IF ok THEN "Ok(tx)" ELSE "Err(build)")
    /\ UNCHANGED pending
    /\ UNCHANGED <<taskVars, engineVars, sellVars, rpcVars, bufVars, gateVars, batchVars>>

----------------------------------------------------------------------------
\* Specifications

\* the slot manager under concurrent client tasks
NextSlots ==
    \/ \E t \in Tasks, legacy \in BOOLEAN : AcquireNoncePermit(t, legacy)
    \/ \E t \in Tasks : AcquireNoncePop(t)
    \/ \E t \in Tasks : AcquireNonceMark(t)
    \/ \E t \in Tasks : ReleaseNonce(t)
    \/ \E t \in Tasks : ForgetRaw(t)
    \/ \E t \in Tasks : DropNonceLease(t)
    \/ \E t \in Tasks : AcquireIndexPermit(t)
    \/ \E t \in Tasks : AcquireIndexPop(t)
    \/ \E t \in Tasks : ReleaseIndex(t)
    \/ \E t \in Tasks : DropIndexLease(t)
    \/ \E i \in Indices : SpawnedRelease(i)

\* the slot manager under tasks that only acquire a lease and drop it
NextLeaseCycle ==
    \/ \E t \in Tasks : AcquireNoncePermit(t, FALSE)
    \/ \E t \in Tasks : AcquireNoncePop(t)
    \/ \E t \in Tasks : AcquireNonceMark(t)
    \/ \E t \in Tasks : DropNonceLease(t)
    \/ \E t \in Tasks : AcquireIndexPermit(t)
    \/ \E t \in Tasks : AcquireIndexPop(t)
    \/ \E t \in Tasks : DropIndexLease(t)
    \/ \E i \in Indices : SpawnedRelease(i)

\* the steps of the engine task and of the sniffer
EngineSteps ==
    \/ \E c \in Candidates : Send(c)
    \/ CloseChannel
    \/ EngineCheckMode
    \/ EngineRecvTimeout
    \/ EngineRecvClosed
    \/ EngineRecvPassive
    \/ \E v \in Verdicts : EngineRecvSniffing(v)
    \/ TbAcquire
    \/ \E ok \in BOOLEAN, bh \in Blockhashes : TbBuild(ok, bh)
    \/ \E ok \in BOOLEAN : TbAfterLoop(ok)
    \/ EngineBuyOk
    \/ EngineBuyErr

\* the steps of the task that runs BuyEngine::run
RunSteps ==
    \/ EngineCheckMode
    \/ EngineRecvTimeout
    \/ EngineRecvClosed
    \/ EngineRecvPassive
    \/ \E v \in Verdicts : EngineRecvSniffing(v)
    \/ TbAcquire
    \/ \E ok \in BOOLEAN, bh \in Blockhashes : TbBuild(ok, bh)
    \/ \E ok \in BOOLEAN : TbAfterLoop(ok)
    \/ EngineBuyOk
    \/ EngineBuyErr

\* the engine with the sell task of main(): one sell at a time
NextEngine ==
    \/ EngineSteps
    \/ \E p \in Percents, built \in BOOLEAN : SellStart(1, p, built)
    \/ \E ok \in BOOLEAN : SellFinish(1, ok)

\* the engine with sell calls that overlap
NextEngineConc ==
    \/ EngineSteps
    \/ \E s \in Sellers, p \in Percents, built \in BOOLEAN : SellStart(s, p, built)
    \/ \E s \in Sellers, ok \in BOOLEAN : SellFinish(s, ok)

\* one send of the broadcaster
NextRpc ==
    \/ \E who \in Callers, nt \in 0 .. MaxTxs : RpcSend(who, nt)
    \/ \E k \in 1 .. (MaxEndpoints * MaxTxs), resp \in Responses : SubComplete(k, resp)
    \/ \E k \in 1 .. (MaxEndpoints * MaxTxs) : JoinNext(k)
    \/ JoinNone

\* sends one after the other, their sub-tasks taken step by step
NextRpcTasks ==
    \/ \E who \in Callers, nt \in 0 .. MaxTxs : RpcSend(who, nt)
    \/ \E k \in 1 .. (MaxEndpoints * MaxTxs), resp \in Responses : SubAnswer(k, resp)
    \/ \E k \in 1 .. (MaxEndpoints * MaxTxs) : SubRecord(k)
    \/ \E k \in 1 .. (MaxEndpoints * MaxTxs) : SubCancel(k)
    \/ \E k \in 1 .. (MaxEndpoints * MaxTxs) : JoinNext(k)
    \/ JoinNone
    \/ RpcAgain

\* builds of buy and sell transactions next to tasks that lease slots of
\* the same manager
NextBuilder ==
    \/ \E kind \in {"buy", "sell"}, valid \in BOOLEAN : BuildBegin(kind, valid)
    \/ BuildAcquirePermit
    \/ BuildAcquirePop
    \/ BuildAcquireMark
    \/ \E ok \in BOOLEAN : BuildFinish(ok)
    \/ \E t \in Tasks : AcquireNoncePermit(t, FALSE)
    \/ \E t \in Tasks : AcquireNoncePop(t)
    \/ \E t \in Tasks : AcquireNonceMark(t)
    \/ \E t \in Tasks : DropNonceLease(t)

\* the buffer under pushes, pops, cleanups and the passing of time
NextBuffer ==
    \/ \E c \in BufCandidates, dt \in {0, 1} : BufPush(c, dt)
    \/ BufPopBest
    \/ BufCleanup
    \/ BufTick

InitAll ==
    /\ InitSlots /\ InitTasks /\ InitEngine /\ InitSell /\ InitGate /\ InitBuild
    /\ InitBatch(TRUE, Capacity)
    /\ InitRpc(1, "Pairwise")
    /\ InitBuf(1, 1)

\* the engine with a transaction builder or, as the tests build it, without
InitBatchAny ==
    /\ InitSlots /\ InitTasks /\ InitEngine /\ InitSell /\ InitGate /\ InitBuild
    /\ InitRpc(1, "Pairwise")
    /\ InitBuf(1, 1)
    /\ \E hasBuilder \in BOOLEAN : InitBatch(hasBuilder, Capacity)

\* the engine as its tests build it: one slot per attempt, no builder; the
\* slot manager is larger than one attempt needs
InitTest ==
    /\ InitSlots /\ InitTasks /\ InitEngine /\ InitSell /\ InitGate /\ InitBuild
    /\ InitRpc(1, "Pairwise")
    /\ InitBuf(1, 1)
    /\ InitBatch(FALSE, 1)

\* the engine under every configuration: nonce_count up to one more than
\* the slot manager's capacity, with or without a builder
InitCfg ==
    /\ InitSlots /\ InitTasks /\ InitEngine /\ InitSell /\ InitGate /\ InitBuild
    /\ InitRpc(1, "Pairwise")
    /\ InitBuf(1, 1)
    /\ \E hasBuilder \in BOOLEAN, k \in 1 .. (Capacity + 1) : InitBatch(hasBuilder, k)

InitBufAny ==
    /\ InitSlots /\ InitTasks /\ InitEngine /\ InitSell /\ InitGate /\ InitBuild
    /\ InitBatch(TRUE, Capacity)
    /\ InitRpc(1, "Pairwise")
    /\ \E t \in 0 .. MaxTtl, ms \in 0 .. MaxSize : InitBuf(t, ms)

InitRpcAny ==
    /\ InitSlots /\ InitTasks /\ InitEngine /\ InitSell /\ InitGate /\ InitBuild /\ InitBuf(1, 1)
    /\ InitBatch(TRUE, Capacity)
    /\ \E ne \in 0 .. MaxEndpoints, mode \in BroadcastModes : InitRpc(ne, mode)

SpecSlots      == InitAll /\ [][NextSlots]_vars
SpecEngine     == InitAll /\ [][NextEngine]_vars
\* the engine task is scheduled whenever it can take a step: a receive
\* completes or times out, a call that is not suspended returns
SpecEngineLive == InitAll /\ [][NextEngine]_vars /\ WF_vars(RunSteps)
SpecEngineConc == InitAll /\ [][NextEngineConc]_vars
SpecRpc        == InitRpcAny /\ [][NextRpc]_vars
SpecBuffer     == InitBufAny /\ [][NextBuffer]_vars
SpecLeaseCycle == InitAll /\ [][NextLeaseCycle]_vars
SpecBuilder    == InitAll /\ [][NextBuilder]_vars
SpecBatch      == InitBatchAny /\ [][NextEngine]_vars
SpecEngineTest == InitTest /\ [][NextEngine]_vars
\* every configuration, the engine task scheduled as in SpecEngineLive
SpecEngineCfgLive == InitCfg /\ [][NextEngine]_vars /\ WF_vars(RunSteps)
\* the test configuration with sell calls that overlap
SpecEngineTestConc == InitTest /\ [][NextEngineConc]_vars
SpecRpcTasks   == InitRpcAny /\ [][NextRpcTasks]_vars

----------------------------------------------------------------------------
\* Properties of the slot manager

\* task t holds an index it acquired and has not released
LiveLease(t) ==
    /\ tpc[t] \in {"nonce_lease", "raw", "index_lease"}
    /\ trel[t] = 0

\* C1: under every interleaving of acquire and release calls, no two leases
\* that are live at the same time hold the same index.
C1_NoTwoLiveLeasesShareIndex ==
    \A t1, t2 \in Tasks :
        (t1 # t2 /\ LiveLease(t1) /\ LiveLease(t2)) => tidx[t1] # tidx[t2]

\* index i is in the free queue
InFree(i) == \E k \in DOMAIN free : free[k] = i

\* C2: in every observable state, between the steps of an acquire or a
\* release included, |free| + |allocated| = N and no index is both free and
\* allocated.
C2_FreePlusAllocatedIsCapacity ==
    /\ Len(free) + Cardinality(in_use) = Capacity
    /\ \A i \in in_use : ~InFree(i)

\* the step is an explicit release by task t of the index it holds
ManualReleaseBy(t) == trel'[t] = trel[t] + 1

\* the step is the drop of the lease acquire_nonce gave task t
NonceLeaseDropBy(t) == tpc[t] = "nonce_lease" /\ tpc'[t] = "idle"

\* C3: a second release of an index, the lease drop that follows a manual
\* release included, changes neither the free queue nor the number of
\* available permits.
C3_SecondReleaseIsNoOp ==
    [][\A t \in Tasks :
          (trel[t] >= 1 /\ (ManualReleaseBy(t) \/ NonceLeaseDropBy(t)))
              => (free' = free /\ permits' = permits)]_vars

----------------------------------------------------------------------------
\* Properties of the engine

\* C4: when try_buy has returned, on every path, every index it acquired is
\* free again and the available permits are back at their value before the
\* attempt.
C4_TryBuyReleasesEverySlot ==
    epc = "buy_done" =>
        /\ permits = permits0
        /\ \A i \in taken : InFree(i) /\ i \notin in_use

\* C5: mode = Sniffing exactly when active_token = None, and exactly when
\* holdings_percent = 0.0, in every AppState an observer can read.
C5_SniffingIffNoTokenIffZeroHoldings ==
    /\ IsSniffing(st) <=> ~st.active_token.some
    /\ IsSniffing(st) <=> (st.holdings_percent = Zero)

\* C6: holdings_percent is a number of [0, 1] in every reachable AppState,
\* whatever percent arguments sell is called with.
C6_HoldingsInUnitInterval == InUnit(st.holdings_percent)

\* a sell called with percent = 1.5 has gone through
C6_Witness ==
    \E s \in Sellers : spc[s] = "sending" /\ sread[s].raw = Dy(3, 1)

\* the engine's step out of a finished buy attempt
LeavesBuyAttempt == epc = "buy_done" /\ epc' = "top"

\* C9: a successful buy attempt for an accepted candidate, made in Sniffing
\* mode, sets mode = PassiveToken(candidate.mint), active_token =
\* Some(candidate), last_buy_price = Some(_) and holdings_percent = 1.0; a
\* failed one leaves AppState unchanged and the mode Sniffing.
C9_BuyOutcomeSetsState ==
    [][LeavesBuyAttempt =>
          /\ IsSniffing(st)
          /\ buyres = "ok" =>
                /\ st'.mode = PassiveToken(ecand.mint)
                /\ st'.active_token = ecand /\ ecand.some
                /\ st'.last_buy_price.some
                /\ st'.holdings_percent = One
          /\ buyres # "ok" => (st' = st /\ IsSniffing(st'))]_vars

\* a buy has succeeded: the engine holds the position it bought
C9_Witness ==
    /\ epc = "top"
    /\ st.mode.tag = "PassiveToken"
    /\ st.holdings_percent = One

\* the step is the successful return of sell call s
SellSucceeds(s) == spc[s] = "sending" /\ spc'[s] = "idle" /\ sres'[s] = "ok"

\* clamp(current * (1 - percent), 0, 1) for the clamped percent argument
ClaimedHoldings(current, percent) ==
    Clamp01(Mul(current, OneMinus(Clamp01(percent))))

\* C10: a sell(percent) in PassiveToken mode whose broadcast succeeds makes
\* holdings_percent = clamp(current * (1 - percent), 0, 1), current being the
\* holdings before the sell; when that is <= epsilon the state becomes
\* Sniffing with no active token and no buy price, otherwise mode and
\* active_token stay as they were.  (Sells issued one at a time, as the sell
\* task of main issues them.)
C10_SellReducesHoldings ==
    [][\A s \in Sellers : SellSucceeds(s) =>
          LET nh == ClaimedHoldings(st.holdings_percent, sread[s].raw) IN
          /\ st.mode.tag = "PassiveToken"
          /\ st'.holdings_percent = nh
          /\ IF LeEpsilon(nh)
             THEN /\ st'.mode = Sniffing
                  /\ st'.active_token = NoneCand
                  /\ st'.last_buy_price = NonePrice
             ELSE /\ st'.mode = st.mode
                  /\ st'.active_token = st.active_token]_vars

\* a partial sell has succeeded and the position is still held
C10_Witness ==
    /\ sres[1] = "ok"
    /\ st.mode.tag = "PassiveToken"
    /\ st.holdings_percent = Dy(1, EpsExp \div 2)

----------------------------------------------------------------------------
\* Properties of the broadcaster

\* sub-task k has returned
Returned(k) == sub[k].state \in {"done", "joined"}

\* C7: send_on_many_rpc returns Ok(signature) if and only if at least one
\* sub-task it spawned returned Ok (a real or a soft-success signature); in
\* every other case, no sub-task spawned included, it returns Err.
C7_OkIffSomeSubTaskOk ==
    rpc = "returned" =>
        /\ sendres.ok <=> \E k \in DOMAIN sub : Returned(k) /\ sub[k].res.ok
        /\ sendres.ok => \E k \in DOMAIN sub : Returned(k) /\ sub[k].res = sendres
        /\ (endpoints = 0 \/ ntx = 0) => (~sendres.ok /\ sub = <<>>)

\* a send has returned Ok after one of its sub-tasks had failed
C7_Witness ==
    /\ rpc = "returned"
    /\ sendres.ok
    /\ \E k \in DOMAIN sub : sub[k].state = "joined" /\ ~sub[k].res.ok

\* the answer to sub-task k was an error that classifies as soft success
SoftAnswer(k) ==
    /\ Returned(k)
    /\ sub[k].resp.kind = "rpc_error"
    /\ IsSoftSuccess(ClassifyRpcError(sub[k].resp.msg))

\* C8: in every broadcast mode an attempt whose RPC error classifies as
\* AlreadyProcessed or DuplicateSignature yields the synthetic signature
\* (byte 0 = endpoint index, byte 1 = 0xFF, other bytes zero) and the
\* broadcaster returns Ok.
C8_SoftSuccessInEveryMode ==
    \A k \in DOMAIN sub : SoftAnswer(k) =>
        /\ sub[k].res = Ok(Signature(sub[k].ep, 255, 0))
        /\ rpc = "returned" => sendres.ok

----------------------------------------------------------------------------
\* Failing sells

\* the step in which sell call s returns an error
SellFails(s) ==
    /\ spc'[s] = "idle"
    /\ sres'[s] \notin {"none", "ok"}
    /\ sres'[s] # sres[s] \/ spc[s] = "sending"

\* C11: a sell that fails, because the mode is not PassiveToken or because
\* the broadcaster returned an error, returns an error and leaves every field
\* of AppState as it was; a sell requested in Sniffing mode does not reach
\* the broadcaster.
C11_FailedSellLeavesState ==
    [][\A s \in Sellers :
          /\ SellFails(s) => st' = st
          /\ (spc[s] = "idle" /\ IsSniffing(st)) => spc'[s] # "sending"]_vars

\* a sell failed at the broadcast while the whole position was held
C11_Witness ==
    /\ sres[1] = "SELL failed to broadcast"
    /\ ~IsSniffing(st)
    /\ st.holdings_percent = One

----------------------------------------------------------------------------
\* Properties of the candidate buffer

\* C12: after any sequence of push, pop_best and cleanup the buffer stores at
\* most max_size entries, for every max_size and ttl.
C12_AtMostMaxSizeEntries == Cardinality(DOMAIN map) <= max_size

\* every entry is stored under the mint of its candidate, so no two entries
\* share a mint
KeyedByMint(mp) == \A k \in DOMAIN mp : mp[k].cand.mint = k

\* the step is push(c): push records the candidate it was given, and reads
\* the clock for the insert either at once or a tick later
Pushed(c) == bufres'.cand = c /\ \E dt \in {0, 1} : BufPush(c, dt)

\* C13 as stated: pushing a candidate whose mint is already stored returns
\* false and leaves the buffer unchanged (same entries, same stored
\* candidates, same seen_at instants), and no two stored entries share a mint.
C13_DuplicatePushChangesNothing ==
    [][/\ KeyedByMint(map')
       /\ \A c \in BufCandidates :
             (c.mint \in DOMAIN map /\ Pushed(c))
                 => (bufres'.ok = FALSE /\ map' = map)]_vars

\* C13 amended: pushing a candidate whose mint is stored in an entry that has
\* not expired (now - seen_at < ttl) returns false, keeps exactly the entries
\* that have not expired, each with its stored candidate and seen_at, and
\* removes the expired ones; no two stored entries share a mint.
C13_DuplicatePushKeepsUnexpired ==
    [][/\ KeyedByMint(map')
       /\ \A c \in BufCandidates :
             (/\ c.mint \in DOMAIN map
              /\ now - map[c.mint].seen_at < ttl
              /\ Pushed(c))
                 => /\ bufres'.ok = FALSE
                    /\ DOMAIN map' = {k \in DOMAIN map : now - map[k].seen_at < ttl}
                    /\ \A k \in DOMAIN map' : map'[k] = map[k]]_vars

\* a duplicate push was refused and the candidate stored first was kept,
\* next to another entry
C13_Witness ==
    /\ bufres.op = "push" /\ bufres.ok = FALSE
    /\ bufres.cand.mint \in DOMAIN map
    /\ map[bufres.cand.mint].cand # bufres.cand
    /\ Cardinality(DOMAIN map) = 2

\* C14: when push, pop_best or cleanup has returned, every stored entry
\* satisfies now - seen_at < ttl, for every ttl, ttl = 0 included.
C14_StoredEntriesUnexpired ==
    [][~BufTick => \A k \in DOMAIN map' : now' - map'[k].seen_at < ttl']_vars

\* the mints stored in entries that have not expired at the current instant
UnexpiredMints == {k \in DOMAIN map : now - map[k].seen_at < ttl}

\* C15: pop_best removes and returns the unexpired stored entry with the
\* smallest seen_at, returns None when no unexpired entry is stored, and
\* never returns a candidate it returned before unless that candidate was
\* pushed again.
C15_PopBestReturnsOldest ==
    [][BufPopBest =>
        IF UnexpiredMints = {}
        THEN bufres'.ok = FALSE /\ bufres'.cand = NoCandidate
        ELSE LET k == bufres'.cand.mint IN
             /\ bufres'.ok
             /\ k \in UnexpiredMints
             /\ bufres'.cand = map[k].cand
             /\ \A j \in UnexpiredMints : map[k].seen_at <= map[j].seen_at
             /\ k \notin DOMAIN map'
             /\ k \notin popped]_vars

\* pop_best returned the oldest of several unexpired entries; the newer ones
\* stay stored
C15_Witness ==
    /\ bufres.op = "pop_best" /\ bufres.ok
    /\ DOMAIN map # {}
    /\ \A k \in DOMAIN map : map[k].seen_at >= 2
    /\ Cardinality(popped) = 1

\* the push of c is a push of a new mint onto a buffer holding max_size > 0
\* unexpired entries and nothing else
PushOntoFull(c) ==
    /\ max_size > 0
    /\ c.mint \notin DOMAIN map
    /\ UnexpiredMints = DOMAIN map
    /\ Cardinality(DOMAIN map) = max_size

\* C16: a push of a new mint onto a buffer that holds max_size > 0 unexpired
\* entries evicts exactly one entry, one with the smallest seen_at, inserts
\* the new candidate and returns true; every other entry is kept.
C16_PushOntoFullEvictsOldest ==
    [][\A c \in BufCandidates :
          (Pushed(c) /\ PushOntoFull(c)) =>
              /\ bufres'.ok
              /\ c.mint \in DOMAIN map' /\ map'[c.mint].cand = c
              /\ \E v \in DOMAIN map :
                    /\ \A j \in DOMAIN map : map[v].seen_at <= map[j].seen_at
                    /\ DOMAIN map' = (DOMAIN map \ {v}) \cup {c.mint}
                    /\ \A j \in DOMAIN map \ {v} : map'[j] = map[j]]_vars

\* a new mint was pushed onto two stored entries: one of them was evicted,
\* the other one stayed
C16_Witness ==
    /\ max_size = 2
    /\ bufres.op = "push" /\ bufres.ok /\ bufres.n = 1
    /\ Cardinality(DOMAIN map) = 2
    /\ \E k \in DOMAIN map : k # bufres.cand.mint /\ map[k].seen_at = 1

----------------------------------------------------------------------------
\* Leases of the slot manager

\* no acquire is under way, no lease is held and no spawned release is left
\* to run
Quiescent ==
    /\ \A t \in Tasks : tpc[t] = "idle"
    /\ \A i \in Indices : pending[i] = 0

\* the free queue holds index i exactly n times
TimesFree(i) == Cardinality({p \in 1 .. Len(free) : free[p] = i})

\* C17: acquiring a lease and dropping it returns the manager to its prior
\* state: when every lease acquired has been dropped and the releases the
\* drops triggered have run, the free queue holds the indices it held at
\* construction, nothing is allocated and the available permits are N again.
C17_AcquireDropRestoresManager ==
    Quiescent =>
        /\ \A i \in Indices : TimesFree(i) = 1
        /\ in_use = {}
        /\ permits = Capacity

\* every index of the manager is held by a lease
AllLeased ==
    \A i \in Indices :
        \E t \in Tasks : tpc[t] \in {"nonce_lease", "raw", "index_lease"} /\ tidx[t] = i

\* task t is inside an acquire, past sem.acquire() and before pop_front()
HasPassedSemaphore(t) == tpc[t] \in {"an_permit", "ai_permit"}

\* C18: acquire never fails for lack of a free slot: a call that got past the
\* semaphore finds a free index, and while all N slots are leased no permit
\* is available, so a further call suspends until a release.
C18_AcquireNeverFailsForLackOfSlot ==
    /\ \A t \in Tasks : HasPassedSemaphore(t) => free # <<>>
    /\ AllLeased => permits = 0

\* C19: with all N slots leased a further acquire returns an error (it is
\* not suspended: a permit is available and the free queue is empty), and
\* when one of the leases has been dropped and its release has run, the next
\* acquire succeeds (a permit is available and the free queue is not empty).
C19_AcquireErrsWhenAllLeased ==
    [][/\ AllLeased' => (permits' > 0 /\ free' = <<>>)
       /\ \A t \in Tasks : (AllLeased /\ DropNonceLease(t))
                                => (permits' > 0 /\ free' # <<>>)
       /\ \A i \in Indices : (SpawnedRelease(i) /\ Len(free) = 0)
                                => (permits' > 0 /\ free' # <<>>)]_vars

\* the number of leases that are live
LiveLeases == Cardinality({t \in Tasks : LiveLease(t)})

\* no spawned release is left to run and no acquire is between its steps
NoReleasePending ==
    /\ \A i \in Indices : pending[i] = 0
    /\ \A t \in Tasks : tpc[t] \notin {"an_permit", "an_popped", "ai_permit"}

\* C20: each acquisition gives back exactly one permit: the available
\* permits never exceed N, and they equal N minus the number of live leases
\* whenever no release is pending.
C20_OnePermitPerAcquisition ==
    /\ permits <= Capacity
    /\ NoReleasePending => permits = Capacity - LiveLeases

----------------------------------------------------------------------------
\* Properties of one send of the broadcaster

\* the wait has seen sub-task k fail with an error that is fatal for the
\* batch: BlockhashNotFound or TransactionExpired
FatalObserved(k) ==
    /\ sub[k].state = "joined"
    /\ sub[k].resp.kind = "rpc_error"
    /\ ClassifyRpcError(sub[k].resp.msg) \in {"BlockhashNotFound", "TransactionExpired"}

\* C21: within one send, once the number of sub-tasks that failed with a
\* fatal error reaches early_cancel_threshold, no sub-task is left running:
\* the broadcaster has aborted them instead of waiting for them.  The
\* threshold is a configuration value, so this is to hold for each of them.
C21_EarlyCancelOnFatalErrors ==
    \A threshold \in 1 .. MaxEndpoints :
        Cardinality({k \in DOMAIN sub : FatalObserved(k)}) >= threshold
            => \A k \in DOMAIN sub : sub[k].state # "running"

----------------------------------------------------------------------------
\* Properties of the engine's gate

\* the step is the sniffing branch receiving a candidate whose program tag
\* is not "pump.fun", with validation outcome v
ReceivesOtherProgram(v) ==
    /\ chan # <<>>
    /\ Head(chan).program # "pump.fun"
    /\ EngineRecvSniffing(v)

\* C22 as stated: a candidate whose program tag is not "pump.fun" causes no
\* slot acquisition and no broadcaster call, the engine stays in Sniffing
\* with AppState unchanged, and buy_attempts_filtered grows by exactly 1.
C22_OtherProgramCountedAsFiltered ==
    [][\A v \in Verdicts : ReceivesOtherProgram(v) =>
          /\ epc' = "top"
          /\ st' = st /\ IsSniffing(st')
          /\ slotVars' = slotVars
          /\ counters' = IncrementCounter(counters, "buy_attempts_filtered")]_vars

\* C22 amended: such a candidate causes no slot acquisition and no
\* broadcaster call and leaves the engine in Sniffing with AppState
\* unchanged; exactly one counter grows, by 1: buy_attempts_filtered when the
\* candidate passed the security validation and the rate limit, otherwise
\* the counter of the check that rejected it first.
C22_OtherProgramNeverBought ==
    [][\A v \in Verdicts : ReceivesOtherProgram(v) =>
          /\ epc' = "top"
          /\ st' = st /\ IsSniffing(st')
          /\ slotVars' = slotVars
          /\ counters' = IncrementCounter(counters,
                IF v # "ok" THEN "buy_attempts_security_rejected"
                ELSE IF limiter[Head(chan).mint] >= RateLimitMax
                     THEN "buy_attempts_rate_limited"
                     ELSE "buy_attempts_filtered")]_vars

\* a candidate was filtered out: the engine is back at the loop head in
\* Sniffing, every slot is free, and nothing else was counted
C22_Witness ==
    /\ counters["buy_attempts_filtered"] = 1
    /\ \A n \in CounterNames \ {"buy_attempts_filtered"} : counters[n] = 0
    /\ epc = "top"
    /\ IsSniffing(st)
    /\ permits = Capacity /\ in_use = {}

\* candidates the engine has taken from the channel so far
Consumed == sent - Len(chan)

\* the step takes a "pump.fun" candidate from the channel and the security
\* validation does not reject it
TakesBuyable ==
    /\ chan # <<>>
    /\ chan' = Tail(chan)
    /\ Head(chan).program = "pump.fun"
    /\ ~EngineRecvSniffing("security_rejected")

\* C23: of the candidates with one mint delivered within one rate-limit
\* window, each of the first 5 starts a buy attempt that goes to the
\* broadcaster, whatever became of the earlier ones, and every further one is
\* rejected as rate-limited.  While no more than 5 candidates were taken in
\* all, the one taken is among the first 5 of its mint.
C23_FirstFiveReachBroadcaster ==
    [][TakesBuyable =>
          /\ Consumed < RateLimitMax =>
                /\ ecand' = SomeCand(Head(chan))
                /\ epc' \in {"tb_acquire", "tb_after"}
          /\ limiter[Head(chan).mint] >= RateLimitMax =>
                /\ epc' = "top"
                /\ counters' = IncrementCounter(counters, "buy_attempts_rate_limited")]_vars

\* C24: while mode = PassiveToken every candidate the engine receives is
\* taken from the channel and discarded (no buy attempt starts, no slot is
\* acquired, AppState and the counters are unchanged), and the channel keeps
\* being drained: a candidate waiting in it is eventually taken.
C24_PassiveDrainsAndDiscards ==
    /\ [][(chan # <<>> /\ chan' = Tail(chan) /\ ~IsSniffing(st)) =>
            /\ epc' = "top"
            /\ ecand' = ecand /\ acquired' = acquired /\ ntxs' = ntxs
            /\ st' = st
            /\ slotVars' = slotVars
            /\ gateVars' = gateVars]_vars
    /\ \A k \in 0 .. MaxSent :
          (~IsSniffing(st) /\ chan # <<>> /\ Consumed = k)
              ~> (Consumed > k \/ IsSniffing(st))

\* in PassiveToken the engine took a candidate from the channel and is back
\* at the loop head with nothing left to receive
C24_Witness ==
    /\ ~IsSniffing(st)
    /\ counters["buy_success_total"] = 1
    /\ Consumed = 2
    /\ chan = <<>>
    /\ epc = "top"

\* C25: once the candidate channel is closed and everything sent has been
\* taken from it, the run loop eventually terminates, in Sniffing as in
\* PassiveToken.
C25_RunTerminatesAfterClose ==
    (chanClosed /\ chan = <<>>) ~> (epc = "stopped")

----------------------------------------------------------------------------
\* Properties of the transaction builder

\* C26: building a buy or a sell transaction takes no slot: no step of a
\* build changes the free queue, the allocated set or the available
\* permits, and a build never waits for a permit.
C26_BuildTakesNoSlot ==
    [][/\ (bld' # bld) => (slotVars' = slotVars)
       /\ ~(bld'.pc = "acquire" /\ permits' = 0)]_vars

----------------------------------------------------------------------------
\* Properties of the broadcast policies and of the endpoint metrics

\* C29: every sell submits its single sell transaction to every configured
\* endpoint, whatever broadcast mode the manager is configured with.
C29_SellReplicatesToEveryEndpoint ==
    (caller = "sell" /\ rpc \in {"joining", "returned"} /\ endpoints > 0) =>
        /\ {sub[k].ep : k \in DOMAIN sub} = 0 .. (endpoints - 1)
        /\ \A k \in DOMAIN sub : sub[k].tx = 0

\* attempts to endpoint e that have completed: the task got its answer, an
\* error or its timeout, and returned
CompletedAttempts(e) ==
    Cardinality({k \in DOMAIN sub : sub[k].ep = e /\ sub[k].state \in {"done", "joined"}})

\* C30: every completed send attempt updates the metrics of its endpoint
\* exactly once, in every broadcast mode: success_count + failure_count of
\* an endpoint is the number of completed attempts to it.
C30_MetricsCountCompletedAttempts ==
    \A e \in DOMAIN metrics :
        metrics[e].success_count + metrics[e].failure_count = CompletedAttempts(e)

\* C27: when a send returns, with Ok on the first success or with Err, no
\* sub-task it spawned is still running: after the return no sub-task
\* takes a further step and no endpoint's metrics are updated.
C27_NoSubTaskOutlivesSend ==
    [][(rpc = "returned" /\ rpc' = "returned") =>
           /\ \A k \in DOMAIN sub : sub[k].state \notin {"running", "answered"}
           /\ metrics' = metrics]_vars

\* the success rate of a orders it strictly before b (no data counts as a
\* success rate of 1); with the latency term of the score the same for
\* both, this is score(a) > score(b)
Outranks(a, b) ==
    LET ta == a.success_count + a.failure_count
        tb == b.success_count + b.failure_count
        na == IF ta = 0 THEN 1 ELSE a.success_count
        da == IF ta = 0 THEN 1 ELSE ta
        nb == IF tb = 0 THEN 1 ELSE b.success_count
        db == IF tb = 0 THEN 1 ELSE tb
    IN  na * db > nb * da

\* C28: a Pairwise send makes exactly K = min(|txs|, |endpoints|) attempts,
\* attempt i sends txs[i] to the endpoint ranked i-th by metrics score, best
\* first, and no endpoint receives more than one transaction.
C28_PairwiseFollowsRanking ==
    [][(rpc = "idle" /\ rpc' = "joining" /\ bmode = "Pairwise") =>
           /\ Len(sub') = Min(ntx', endpoints)
           /\ \A i \in DOMAIN sub' : sub'[i].tx = i - 1
           /\ \A i, j \in DOMAIN sub' : i # j => sub'[i].ep # sub'[j].ep
           /\ \A i \in DOMAIN sub', e \in 0 .. (endpoints - 1) :
                  Outranks(metrics[e], metrics[sub'[i].ep]) =>
                      \E j \in 1 .. (i - 1) : sub'[j].ep = e]_vars

----------------------------------------------------------------------------
\* Properties of the buy attempt

\* try_buy returns: from the loop on a builder error, or after the loop
TryBuyReturns == epc # "buy_done" /\ epc' = "buy_done"

\* try_buy is past its loop with a batch: it calls send_on_many_rpc(txs)
CallsBroadcaster == epc = "tb_after" /\ ntxs > 0

\* the slots the attempt holds and the batch it hands over
BatchIsOnePerSlot ==
    /\ Cardinality(taken) <= NonceCount
    /\ CallsBroadcaster => (ntxs = Len(acquired) /\ ntxs = Cardinality(taken))

C32_BatchPairwiseDistinct ==
    \A i, j \in DOMAIN txs : i # j => txs[i] # txs[j]

----------------------------------------------------------------------------
\* Properties of AppState under the engine and the sells

\* C33: in every reachable AppState, mode = PassiveToken(m) implies that
\* active_token is Some with mint m and last_buy_price is Some, and
\* mode = Sniffing implies that last_buy_price is None.
C33_ModeTokenPriceAgree ==
    /\ ~IsSniffing(st) =>
           /\ st.active_token.some
           /\ st.active_token.mint = st.mode.mint
           /\ st.last_buy_price.some
    /\ IsSniffing(st) => ~st.last_buy_price.some

\* a position was bought and a sell has left it: Sniffing again, with the
\* holdings the sell wrote
C33_Witness ==
    /\ IsSniffing(st)
    /\ sres[1] = "ok"
    /\ counters["buy_success_total"] > 0

\* the engine is inside try_buy or about to write its outcome
InBuyAttempt == epc \in {"tb_acquire", "tb_build", "tb_after", "buy_done"}

\* C34: the engine starts a buy attempt only while mode = Sniffing and
\* writes PassiveToken only over a Sniffing state, so a successful buy never
\* overwrites a position that is held.
C34_BuysOnlyFromSniffing ==
    [][/\ (~InBuyAttempt /\ InBuyAttempt') => IsSniffing(st)
       /\ (~IsSniffing(st') /\ st'.mode # st.mode) => IsSniffing(st)]_vars

\* the engine bought, a sell left the position, and the engine bought again
C34_Witness ==
    /\ ~IsSniffing(st)
    /\ counters["buy_success_total"] = 2

\* C35: two sell calls that overlap on the same position compose like two
\* sequential sells: each successful sell reduces the holdings the position
\* has when the sell writes, so that after both the holdings are
\* current * (1 - p1) * (1 - p2) and neither reduction is lost.
C35_OverlappingSellsCompose ==
    [][\A s \in Sellers :
          (SellSucceeds(s) /\ ~IsSniffing(st) /\ st.mode.mint = sread[s].mint) =>
              st'.holdings_percent = NewHoldings(st.holdings_percent, sread[s].pct)]_vars

\* C36: a sell changes only the position it was issued against: when the
\* position it read has been left and the engine holds a different mint by
\* the time the sell's broadcast completes, the sell does not modify
\* holdings_percent, mode or active_token of the new position.
C36_LateSellLeavesNewPosition ==
    [][\A s \in Sellers :
          (SellSucceeds(s) /\ ~IsSniffing(st) /\ st.mode.mint # sread[s].mint) =>
              st' = st]_vars

\* C37: every buy attempt terminates: try_buy eventually returns, with
\* success or failure, also when nonce_count exceeds the capacity of the
\* slot manager; it never waits forever for a slot while it holds slots
\* itself.  Stated for the attempts that start with every permit available,
\* which owe nothing to slots an earlier attempt kept.
C37_BuyAttemptTerminates ==
    (InBuyAttempt /\ permits0 = Capacity) ~> (epc = "top")

\* the engine takes a candidate from the channel in its passive branch and
\* ignores it
DiscardsAsPassive == epc = "recv_passive" /\ epc' = "top" /\ Len(chan') < Len(chan)

\* C38: a candidate is discarded as passive only if the mode is
\* PassiveToken at the moment the candidate is received: one that arrives
\* after a full sell has returned the state to Sniffing is not dropped.
C38_DiscardsOnlyInPassive ==
    [][DiscardsAsPassive => ~IsSniffing(st)]_vars

\* C39: de-duplication covers only the entries currently stored: a push of a
\* candidate whose mint has no unexpired entry (it was never stored, or its
\* entry was popped, evicted or has expired) returns true and stores the
\* candidate under its mint with the instant of the insert as seen_at.
C39_PushAfterLeavingInserts ==
    [][\A c \in BufCandidates :
          (c.mint \notin UnexpiredMints /\ Pushed(c))
              => /\ bufres'.ok
                 /\ c.mint \in DOMAIN map'
                 /\ map'[c.mint].cand = c
                 /\ map'[c.mint].seen_at = now']_vars

\* a mint that pop_best had returned has just been pushed again and is stored
\* with the present instant, later than the construction of the buffer
C39_Witness ==
    /\ bufres.op = "push" /\ bufres.ok /\ bufres.back
    /\ bufres.cand.mint \in DOMAIN map
    /\ map[bufres.cand.mint].seen_at = now
    /\ now > 0

\* an acquire that holds a permit finds the free queue empty and returns
\* "no free nonce index" / "no free index slot"
AcquireFailsWithPermit ==
    \E t \in Tasks : tpc[t] \in {"an_permit", "ai_permit"} /\ free = <<>>

\* C40: holding a permit implies a free index exists: in every reachable
\* state the available permits are at most the indices in the free queue,
\* so no acquire that has obtained a permit finds the free queue empty.
C40_PermitImpliesFreeIndex ==
    /\ permits <= Len(free)
    /\ ~AcquireFailsWithPermit

====
